---- MODULE Spec2Model ----
(***************************************************************************)
(* Sialink link format and fanout streamer of siad.                        *)
(*                                                                         *)
(*   - the bitfield codec (offset, length) <-> 16 bit field of the         *)
(*     modules.LinkData exercised by TestSialinkManualExamples and         *)
(*     TestSialinkAutoExamples;                                            *)
(*   - renter.LinkData.String / LoadString (modules/renter/linkformat.go); *)
(*   - Renter.newFanoutStreamer and fanoutStreamer.ReadAt;                 *)
(*   - goroutines calling ReadAt and SilentClose on one streamer;          *)
(*   - linkfileEncodeFanout and the decoding of its fanout;                *)
(*   - getRawResponse and getReaderResponse of the API client.             *)
(*                                                                         *)
(* Each part has its own specification (SpecBitfield, SpecLink,            *)
(* SpecStreamer, SpecConcurrent, SpecEncode, SpecClient); the variables    *)
(* of the other parts stay at their idle values.                           *)
(***************************************************************************)
EXTENDS Integers, Sequences, FiniteSets, TLC

VARIABLES
    \* ---- bitfield codec: one modules.LinkData and the last call on it
    bitfield,       \* ld.bitfield, a uint16
    bfOffset,       \* offset argument of the last SetOffsetAndLen
    bfLength,       \* length argument of the last SetOffsetAndLen
    bfErr,          \* its result: "nil" or an error kind
    bfOut,          \* <<offset, length>> the last OffsetAndLen returned
    bfPc            \* "new" (var ld LinkData), "set" (after
                    \* SetOffsetAndLen), "read" (after OffsetAndLen)

VARIABLES
    \* ---- link codec: renter.LinkData, its text, and the LinkData loaded
    ldIn,           \* the LinkData that was serialized
    linkText,       \* the string at hand, a sequence of characters
    linkKind,       \* how it was made: "none", "link", "params", "arb"
    linkParams,     \* how many "&..." suffixes were appended to it
    ldOut,          \* the LinkData LoadString loads into
    loadErr,        \* "none" before the call, then "nil", "err", "panic"
    linkPc          \* "new", "text" (a string is at hand), "loaded"

VARIABLES
    \* ---- fanout streamer: one newFanoutStreamer call and reads on it
    ll,             \* the linkfileLayout passed to newFanoutStreamer
    fanoutBytes,    \* the fanout passed to it
    keyOK,          \* whether crypto.NewSiaKey succeeds for ll
    ecOK,           \* whether siafile.NewRSSubCode succeeds for ll
    nfsRes,         \* "none" before the call, then "ok", "err", "panic"
    fs,             \* the *fanoutStreamer returned, or "nil"
    streams,        \* streams opened on the renter's stream buffer set
    raLen,          \* len(b) of the last ReadAt
    raOffset,       \* offset of the last ReadAt
    raFetchOK,      \* whether the fetcher delivered the pieces asked for
    raN,            \* bytes copied, as ReadAt returned
    raErr,          \* "none" before the call, then "nil" or the error
    raFetched,      \* index of the chunk the call fetched, or "none"
    raData          \* the bytes now in b[:n]: n bytes of the file from
                    \* position first on

VARIABLES
    \* ---- goroutines calling ReadAt and SilentClose on one streamer
    cfs,            \* the *fanoutStreamer they share
    rdPc,           \* per goroutine: "idle", "fetching" (inside
                    \* managedFetchChunk), "fetched" (it has returned),
                    \* "done" (ReadAt has returned)
    rdLen,          \* per goroutine: len(b) of its ReadAt
    rdOffset,       \* per goroutine: offset of its ReadAt
    rdFetch,        \* per goroutine: how its managedFetchChunk ended:
                    \* "none", "delivered", "failed", "closed"
    rdN,            \* per goroutine: bytes copied, as ReadAt returned
    rdErr,          \* per goroutine: "none", then "nil" or the error
    submitted,      \* the goroutines in the order they called ReadAt
    completed,      \* the goroutines in the order their ReadAt returned
    streamOpen,     \* whether fs.stream is open
    closeCalls,     \* SilentClose calls made so far
    closeLogged,    \* errors of stream.Close written to the renter's log
    inFlightAtClose \* the goroutines whose ReadAt was in flight when a
                    \* SilentClose was called

VARIABLES
    \* ---- fanout encoding: one linkfileEncodeFanout call and its decoding
    efFile,         \* the fileNode: cipher, erasure code, pieces per chunk
    efFanout,       \* the fanout linkfileEncodeFanout returned
    efErr,          \* "none" before the call, then "nil" or "err"
    efRes,          \* result of newFanoutStreamer on that fanout: "none",
                    \* then "ok", "err", "panic"
    efChunks,       \* the chunk table of the streamer it returned
    efPc            \* "new", "encoded", "decoded"

VARIABLES
    \* ---- API client: the response to one resource and the two GETs
    clResp,         \* what a GET of the resource meets: a failure to make
                    \* or send the request, or status and body kind
    rawOut,         \* header, data, err of getRawResponse, "none" before
    rawBody,        \* the response body of that call as it was left
    rdrOut,         \* header, reader, err of getReaderResponse
    rdrBody         \* the response body of that call as it was left

bfVars == <<bitfield, bfOffset, bfLength, bfErr, bfOut, bfPc>>

clVars == <<clResp, rawOut, rawBody, rdrOut, rdrBody>>

efVars == <<efFile, efFanout, efErr, efRes, efChunks, efPc>>

ccVars == <<cfs, rdPc, rdLen, rdOffset, rdFetch, rdN, rdErr, submitted,
            completed, streamOpen, closeCalls, closeLogged, inFlightAtClose>>

restVars == <<ccVars, efVars, clVars>>

nfsVars == <<ll, fanoutBytes, keyOK, ecOK, nfsRes, fs, streams>>

raVars == <<raLen, raOffset, raFetchOK, raN, raErr, raFetched, raData>>

fsVars == <<nfsVars, raVars>>

linkVars == <<ldIn, linkText, linkKind, linkParams, ldOut, loadErr, linkPc>>

vars == <<bfVars, linkVars, fsVars, restVars>>

(***************************************************************************)
(* Arithmetic helpers.                                                     *)
(***************************************************************************)
Pow2(n) == 2 ^ n

Min(a, b) == IF a <= b THEN a ELSE b

(***************************************************************************)
(* Bitfield codec.  SetOffsetAndLen and OffsetAndLen are methods of        *)
(* modules.LinkData; the tests of part_000 call them.                      *)
(***************************************************************************)
SectorSize == 4194304

NumModes == 8

NumBuckets == 8

Modes == 0 .. (NumModes - 1)

Buckets == 0 .. (NumBuckets - 1)

\* offset alignment of mode m: 4 KiB, doubling with every mode
OffsetAlign(m) == Pow2(12 + m)

\* length step of mode m: 4 KiB in mode 0, 2^(11+m) above
LengthAlign(m) == IF m = 0 THEN 4096 ELSE Pow2(11 + m)

\* where mode m's band of lengths begins
LengthShift(m) == IF m = 0 THEN 0 ELSE Pow2(14 + m)

\* the largest length mode m stores
ModeTop(m) == LengthShift(m) + LengthAlign(m) * NumBuckets

\* the smallest mode whose band admits length; NumModes when none does
RECURSIVE ModeFrom(_, _)
ModeFrom(length, m) ==
    IF m = NumModes \/ length <= ModeTop(m) THEN m ELSE ModeFrom(length, m + 1)

ModeOf(length) == ModeFrom(length, 0)

\* the bucket of mode m that length rounds up into; a length of 0 is stored
\* as one step of mode 0, like a length of 1
\* (variant: a length on the end of a bucket goes to the next bucket)
BucketOfNextUp(m, length) ==
    LET over == length - LengthShift(m)
    IN  Min(over \div LengthAlign(m), NumBuckets - 1)

BucketOf(m, length) ==
    LET over == length - LengthShift(m)
    IN  IF over <= LengthAlign(m) THEN 0
        ELSE ((over + LengthAlign(m) - 1) \div LengthAlign(m)) - 1

StoredLength(m, i) == LengthShift(m) + LengthAlign(m) * (i + 1)

\* mode, bucket and offset index packed above the two version bits: m ones
\* and a zero, three bits of bucket, 10 - m bits of offset index.  The
\* legal grid has 15984 points (8164 in mode 0 alone), more than 13 bits
\* tell apart, so the mode prefix starts at bit 2; in mode 0 the three low
\* bits are then version - 1.
PackBitfield(version, m, i, j) ==
    ((version - 1) + 4 * ((Pow2(m) - 1) + Pow2(m + 1) * (i + NumBuckets * j)))
        % 65536

\* SetOffsetAndLen(offset, length) on a LinkData whose bitfield is b:
\* <<error, new bitfield>>
\* (variant: the offset index is not tested against its range)
SetOffsetAndLenNoRange(b, offset, length) ==
    LET m == ModeOf(length)
    IN  IF m = NumModes THEN <<"ErrLengthTooLarge", b>>
        ELSE IF offset % OffsetAlign(m) # 0 THEN <<"ErrUnalignedOffset", b>>
        ELSE <<"nil", PackBitfield((b % 4) + 1, m, BucketOf(m, length),
                                   offset \div OffsetAlign(m))>>

\* (variant: a length of 0 is refused at every offset but 0)
SetOffsetAndLenZeroFails(b, offset, length) ==
    LET m == ModeOf(length)
    IN  IF length = 0 /\ offset # 0 THEN <<"ErrLengthZero", b>>
        ELSE IF m = NumModes THEN <<"ErrLengthTooLarge", b>>
        ELSE LET i == BucketOf(m, length)
                 j == offset \div OffsetAlign(m)
             IN  IF offset % OffsetAlign(m) # 0
                 THEN <<"ErrUnalignedOffset", b>>
                 ELSE IF OffsetAlign(m) * j + StoredLength(m, i) > SectorSize
                 THEN <<"ErrOffsetOutOfRange", b>>
                 ELSE <<"nil", PackBitfield((b % 4) + 1, m, i, j)>>

SetOffsetAndLen(b, offset, length) ==
    LET m == ModeOf(length)
    IN  IF m = NumModes THEN <<"ErrLengthTooLarge", b>>
        ELSE LET i == BucketOf(m, length)
                 j == offset \div OffsetAlign(m)
             IN  IF offset % OffsetAlign(m) # 0
                 THEN <<"ErrUnalignedOffset", b>>
                 ELSE IF OffsetAlign(m) * j + StoredLength(m, i) > SectorSize
                 THEN <<"ErrOffsetOutOfRange", b>>
                 ELSE <<"nil", PackBitfield((b % 4) + 1, m, i, j)>>

\* the number of one bits at the low end of w, counted up to NumModes - 1
RECURSIVE TrailingOnes(_, _)
TrailingOnes(w, n) ==
    IF n = NumModes - 1 \/ w % 2 = 0 THEN n ELSE TrailingOnes(w \div 2, n + 1)

\* OffsetAndLen(): <<offset, length>> of the bitfield b
OffsetAndLen(b) ==
    LET w == b \div 4
        m == TrailingOnes(w, 0)
        rest == w \div Pow2(m + 1)
    IN  <<OffsetAlign(m) * (rest \div NumBuckets),
          StoredLength(m, rest % NumBuckets)>>

\* Version(): the two low bits hold version - 1
Version(b) == (b % 4) + 1

(***************************************************************************)
(* Link codec: renter.LinkData, String and LoadString.                     *)
(*                                                                         *)
(* A string is a sequence of characters.  A character of the base64 URL    *)
(* alphabet "A-Za-z0-9-_" is written as its index 0..63 in that alphabet,  *)
(* the other characters used here as the numbers above it.                 *)
(***************************************************************************)
ChColon == 64

ChSlash == 65

ChAmp == 66

ChQuestion == 67

\* 'a', 'd', 'f', 'i', 's' in the alphabet
ChA == 26

ChD == 29

ChF == 31

ChI == 34

ChS == 44

SiaScheme == <<ChS, ChI, ChA, ChColon, ChSlash, ChSlash>>

HashSize == 32

RawSize == 45

\* the n low bytes of v, least significant first (binary.LittleEndian.Put*)
PutLittleEndian(v, n) == [k \in 1 .. n |-> (v \div (256 ^ (k - 1))) % 256]

\* A uint64 is kept as its four 16 bit limbs, least significant first: the
\* model's integers do not reach 2^64.
PutUint64(limbs) ==
    PutLittleEndian(limbs[1], 2) \o PutLittleEndian(limbs[2], 2)
        \o PutLittleEndian(limbs[3], 2) \o PutLittleEndian(limbs[4], 2)

\* binary.LittleEndian.Uint16 / Uint64 of the bytes b
RECURSIVE LittleEndian(_)
LittleEndian(b) ==
    IF b = <<>> THEN 0 ELSE Head(b) + 256 * LittleEndian(Tail(b))

Uint64(b) ==
    <<LittleEndian(SubSeq(b, 1, 2)), LittleEndian(SubSeq(b, 3, 4)),
      LittleEndian(SubSeq(b, 5, 6)), LittleEndian(SubSeq(b, 7, 8))>>

\* the 45 raw bytes String() fills
\* (variant: raw[44] takes DataPieces too)
RawOfNoParity(ld) ==
    <<ld.Version>> \o ld.MerkleRoot \o PutLittleEndian(ld.HeaderSize, 2)
        \o PutUint64(ld.FileSize) \o <<ld.DataPieces>>
        \o <<ld.DataPieces>>

RawOf(ld) ==
    <<ld.Version>> \o ld.MerkleRoot \o PutLittleEndian(ld.HeaderSize, 2)
        \o PutUint64(ld.FileSize) \o <<ld.DataPieces>>
        \o <<ld.ParityPieces>>

\* base64.RawURLEncoding: the bytes as a big-endian bit stream cut into
\* groups of six bits, the last group filled up with zero bits, no padding
Base64Encode(b) ==
    LET n == (8 * Len(b) + 5) \div 6
        at(k) == IF k <= Len(b) THEN b[k] ELSE 0
    IN  [c \in 1 .. n |->
            LET bit == 6 * (c - 1)
                k == (bit \div 8) + 1
                window == 256 * at(k) + at(k + 1)
            IN  (window \div (2 ^ (10 - (bit % 8)))) % 64]

\* LinkData.String
String(ld) == SiaScheme \o Base64Encode(RawOf(ld))

\* strings.TrimPrefix(s, "sia://")
TrimPrefix(s) ==
    IF Len(s) >= Len(SiaScheme) /\ SubSeq(s, 1, Len(SiaScheme)) = SiaScheme
    THEN SubSeq(s, Len(SiaScheme) + 1, Len(s))
    ELSE s

\* the bytes of one quantum of q characters (2..4) of the alphabet
QuantumBytes(q) ==
    LET at(k) == IF k <= Len(q) THEN q[k] ELSE 0
        val == 262144 * at(1) + 4096 * at(2) + 64 * at(3) + at(4)
    IN  SubSeq(<<(val \div 65536) % 256, (val \div 256) % 256, val % 256>>,
               1, Len(q) - 1)

\* base64.RawURLEncoding.Decode(dst, src) with len(dst) = room + Len(done):
\* quantum after quantum; a character outside the alphabet or a last quantum
\* of one character is a CorruptInputError, a quantum that does not fit
\* into dst is an index out of range panic
RECURSIVE Base64DecodeFrom(_, _, _)
Base64DecodeFrom(src, done, size) ==
    IF src = <<>> THEN [res |-> "nil", bytes |-> done]
    ELSE LET q == SubSeq(src, 1, Min(4, Len(src)))
         IN  IF \E k \in 1 .. Len(q) : q[k] > 63
             THEN [res |-> "err", bytes |-> done]
             ELSE IF Len(q) = 1 THEN [res |-> "err", bytes |-> done]
             ELSE IF Len(done) + Len(q) - 1 > size
             THEN [res |-> "panic", bytes |-> done]
             ELSE Base64DecodeFrom(SubSeq(src, Len(q) + 1, Len(src)),
                                   done \o QuantumBytes(q), size)

Base64Decode(src, size) ==
    LET r == Base64DecodeFrom(src, <<>>, size)
    IN  [res |-> r.res,
         bytes |-> r.bytes \o [k \in 1 .. (size - Len(r.bytes)) |-> 0]]

\* the fields LoadString reads from the raw bytes
LinkDataOf(raw) ==
    [Version |-> raw[1],
     MerkleRoot |-> SubSeq(raw, 2, 1 + HashSize),
     HeaderSize |-> LittleEndian(SubSeq(raw, 34, 35)),
     FileSize |-> Uint64(SubSeq(raw, 36, 43)),
     DataPieces |-> raw[44],
     ParityPieces |-> raw[45]]

\* LinkData.LoadString(s) on the LinkData ld: the error and ld afterwards
LoadString(ld, s) ==
    LET d == Base64Decode(TrimPrefix(s), RawSize)
    IN  IF d.res # "nil" THEN [err |-> d.res, ld |-> ld]
        ELSE [err |-> "nil", ld |-> LinkDataOf(d.bytes)]

ZeroHash == [k \in 1 .. HashSize |-> 0]

ZeroLinkData ==
    [Version |-> 0, MerkleRoot |-> ZeroHash, HeaderSize |-> 0,
     FileSize |-> <<0, 0, 0, 0>>,
     DataPieces |-> 0, ParityPieces |-> 0]

\* the LinkData values serialized: every field at its least and largest
\* value and at values whose bytes differ
LinkDatas ==
    [Version : {0, 1, 255},
     MerkleRoot : {ZeroHash, [k \in 1 .. HashSize |-> 255],
                   [k \in 1 .. HashSize |-> 7 * k]},
     HeaderSize : {0, 258, 65535},
     FileSize : {<<0, 0, 0, 0>>, <<1800, 1286, 772, 258>>,
                 <<65535, 65535, 65535, 65535>>},
     DataPieces : {0, 1, 255},
     ParityPieces : {0, 2, 255}]

\* the lengths of the arbitrary strings "aaa...a" loaded
MaxArbitrary == 64

\* how many "&..." suffixes are appended to one link
MaxParams == 2

\* the suffixes appended after an "&": none, "fdsa", "f&f?"
Suffixes == {<<>>, <<ChF, ChD, ChS, ChA>>, <<ChF, ChAmp, ChF, ChQuestion>>}

InitLink ==
    /\ ldIn = ZeroLinkData
    /\ linkText = <<>>
    /\ linkKind = "none"
    /\ linkParams = 0
    /\ ldOut = ZeroLinkData
    /\ loadErr = "none"
    /\ linkPc = "new"

\* s := ld.String()
DoString ==
    /\ linkPc = "new"
    /\ \E ld \in LinkDatas :
           /\ ldIn' = ld
           /\ linkText' = String(ld)
    /\ linkKind' = "link"
    /\ linkPc' = "text"
    /\ UNCHANGED <<linkParams, ldOut, loadErr, bfVars, fsVars,
                   restVars>>

\* arb = "a" + "a" + ... : a string of n times "a"
DoArbitrary ==
    /\ linkPc = "new"
    /\ \E n \in 0 .. MaxArbitrary : linkText' = [k \in 1 .. n |-> ChA]
    /\ linkKind' = "arb"
    /\ linkPc' = "text"
    /\ UNCHANGED <<ldIn, linkParams, ldOut, loadErr, bfVars, fsVars,
                   restVars>>

\* the link is handed on without its "sia://"
DoDropScheme ==
    /\ linkPc = "text"
    /\ linkKind = "link"
    /\ TrimPrefix(linkText) # linkText
    /\ linkText' = TrimPrefix(linkText)
    /\ UNCHANGED <<ldIn, linkKind, linkParams, ldOut, loadErr, linkPc,
                   bfVars, fsVars,
                   restVars>>

\* params := s + "&" + suffix
DoAppendParams ==
    /\ linkPc = "text"
    /\ linkKind \in {"link", "params"}
    /\ linkParams < MaxParams
    /\ \E sfx \in Suffixes : linkText' = linkText \o <<ChAmp>> \o sfx
    /\ linkKind' = "params"
    /\ linkParams' = linkParams + 1
    /\ UNCHANGED <<ldIn, ldOut, loadErr, linkPc, bfVars, fsVars,
                   restVars>>

\* var ld LinkData; err := ld.LoadString(s)
DoLoadString ==
    /\ linkPc = "text"
    /\ LET r == LoadString(ZeroLinkData, linkText)
       IN  /\ ldOut' = r.ld
           /\ loadErr' = r.err
    /\ linkPc' = "loaded"
    /\ UNCHANGED <<ldIn, linkText, linkKind, linkParams, bfVars, fsVars,
                   restVars>>

NextLink ==
    \/ DoString
    \/ DoArbitrary
    \/ DoDropScheme
    \/ DoAppendParams
    \/ DoLoadString

(***************************************************************************)
(* Fanout streamer: newFanoutStreamer and ReadAt.                          *)
(***************************************************************************)
\* copy(dst[:], src[from:]) into a hash: the bytes of src from the 0-based
\* position from on, as many as there are, the rest of dst as it was
CopyHash(dst, src, from) ==
    [k \in 1 .. HashSize |->
        IF from + k <= Len(src) THEN src[from + k] ELSE dst[k]]

\* the inner loop of newFanoutStreamer over one chunk, at j:
\*   for j := 0; j < len(chunk); j += HashSize {
\*       copy(chunk[j/chunkRootsSize][:], fanoutBytes[i+j:]) }
RECURSIVE FillChunk(_, _, _, _, _)
FillChunk(chunk, fanout, i, j, chunkRootsSize) ==
    IF j >= Len(chunk) THEN chunk
    ELSE FillChunk(
            [chunk EXCEPT ![(j \div chunkRootsSize) + 1] =
                CopyHash(@, fanout, i + j)],
            fanout, i, j + HashSize, chunkRootsSize)

\* the outer loop, at i:
\*   for i := 0; i < len(fanoutBytes); i += chunkRootsSize { ... append }
RECURSIVE FillChunks(_, _, _, _, _)
FillChunks(chunks, fanout, i, piecesPerChunk, chunkRootsSize) ==
    IF i >= Len(fanout) THEN chunks
    ELSE FillChunks(
            Append(chunks,
                   FillChunk([k \in 1 .. piecesPerChunk |-> ZeroHash],
                             fanout, i, 0, chunkRootsSize)),
            fanout, i + chunkRootsSize, piecesPerChunk, chunkRootsSize)

\* the rest of newFanoutStreamer once piecesPerChunk and chunkRootsSize
\* are set: the make with its division (an integer division by zero is a
\* run time panic), the copy loops, the stream
FinishStreamer(layout, fanout, piecesPerChunk, chunkRootsSize) ==
    IF chunkRootsSize = 0 THEN [res |-> "panic", fs |-> "nil", opened |-> 0]
    ELSE [res |-> "ok",
          fs |-> [staticChunks |->
                      FillChunks(<<>>, fanout, 0, piecesPerChunk,
                                 chunkRootsSize),
                  staticChunkSize |-> SectorSize * layout.fanoutDataPieces,
                  staticLayout |-> layout],
          opened |-> 1]

Failed == [res |-> "err", fs |-> "nil", opened |-> 0]

\* Renter.newFanoutStreamer(link, ll, fanoutBytes).  In the else branch
\* piecesPerChunk and chunkRootsSize are declared anew with := and only
\* those are set; the outer two, which the code below the branch reads,
\* keep their zero value.
\* (variant: the length of the fanout is not tested)
newFanoutStreamerNoSizeCheck(layout, fanout, key, ec) ==
    IF ~key THEN Failed
    ELSE IF ~ec THEN Failed
    ELSE IF layout.fanoutDataPieces = 1 /\ layout.cipherType = "plain"
    THEN FinishStreamer(layout, fanout, 1, HashSize)
    ELSE FinishStreamer(layout, fanout, 0, 0)

newFanoutStreamer(layout, fanout, key, ec) ==
    IF ~key THEN Failed
    ELSE IF ~ec THEN Failed
    ELSE IF layout.fanoutDataPieces = 1 /\ layout.cipherType = "plain"
    THEN IF Len(fanout) % HashSize # 0 THEN Failed
         ELSE FinishStreamer(layout, fanout, 1, HashSize)
    ELSE LET piecesPerChunk ==
                 layout.fanoutDataPieces + layout.fanoutParityPieces
             chunkRootsSize == HashSize * piecesPerChunk
         IN  IF Len(fanout) % chunkRootsSize # 0 THEN Failed
             ELSE FinishStreamer(layout, fanout, 0, 0)

\* fs.managedFetchChunk(chunkIndex): the chunk's bytes, or an error when
\* the fetcher does not deliver or the chunk table has no such chunk.  The
\* chunk holds staticChunkSize bytes, the last chunk of the file only
\* filesize mod staticChunkSize when that is not zero.
managedFetchChunk(f, chunkIndex, delivered) ==
    IF ~delivered \/ chunkIndex >= Len(f.staticChunks)
    THEN [err |-> "fetch", first |-> 0, len |-> 0]
    ELSE [err |-> "nil",
          first |-> chunkIndex * f.staticChunkSize,
          len |-> IF /\ (chunkIndex + 1) * f.staticChunkSize
                          > f.staticLayout.filesize
                     /\ f.staticLayout.filesize % f.staticChunkSize # 0
                  THEN f.staticLayout.filesize % f.staticChunkSize
                  ELSE f.staticChunkSize]

NoData == [first |-> 0, n |-> 0]

Refused(e) == [n |-> 0, err |-> e, fetched |-> "none", data |-> NoData]

\* fanoutStreamer.ReadAt(b, offset) with len(b) = blen
\* (variant: the chunk index is one too high)
ReadAtChunkOne(f, blen, offset, delivered) ==
    IF offset < 0 THEN Refused("negative")
    ELSE IF blen > f.staticChunkSize THEN Refused("oversized")
    ELSE IF offset % f.staticChunkSize # 0 THEN Refused("unaligned")
    ELSE IF offset + blen > f.staticLayout.filesize
    THEN Refused("out of bounds")
    ELSE LET chunkIndex == (offset \div f.staticChunkSize) + 1
             c == managedFetchChunk(f, chunkIndex, delivered)
         IN  IF c.err # "nil"
             THEN [n |-> 0, err |-> "fetch", fetched |-> chunkIndex,
                   data |-> NoData]
             ELSE [n |-> Min(blen, c.len), err |-> "nil",
                   fetched |-> chunkIndex,
                   data |-> [first |-> c.first, n |-> Min(blen, c.len)]]

\* (variant: the end of the file is tested before size and alignment)
ReadAtBoundsFirst(f, blen, offset, delivered) ==
    IF offset < 0 THEN Refused("negative")
    ELSE IF offset + blen > f.staticLayout.filesize
    THEN Refused("out of bounds")
    ELSE IF blen > f.staticChunkSize THEN Refused("oversized")
    ELSE IF offset % f.staticChunkSize # 0 THEN Refused("unaligned")
    ELSE LET chunkIndex == offset \div f.staticChunkSize
             c == managedFetchChunk(f, chunkIndex, delivered)
         IN  IF c.err # "nil"
             THEN [n |-> 0, err |-> "fetch", fetched |-> chunkIndex,
                   data |-> NoData]
             ELSE [n |-> Min(blen, c.len), err |-> "nil",
                   fetched |-> chunkIndex,
                   data |-> [first |-> c.first, n |-> Min(blen, c.len)]]

ReadAt(f, blen, offset, delivered) ==
    IF offset < 0 THEN Refused("negative")
    ELSE IF blen > f.staticChunkSize THEN Refused("oversized")
    ELSE IF offset % f.staticChunkSize # 0 THEN Refused("unaligned")
    ELSE IF offset + blen > f.staticLayout.filesize
    THEN Refused("out of bounds")
    ELSE LET chunkIndex == offset \div f.staticChunkSize
             c == managedFetchChunk(f, chunkIndex, delivered)
         IN  IF c.err # "nil"
             THEN [n |-> 0, err |-> "fetch", fetched |-> chunkIndex,
                   data |-> NoData]
             ELSE [n |-> Min(blen, c.len), err |-> "nil",
                   fetched |-> chunkIndex,
                   data |-> [first |-> c.first, n |-> Min(blen, c.len)]]

\* the largest fanout handed to newFanoutStreamer, in bytes
MaxFanoutLen == 100

\* the most data and parity pieces of a layout
MaxDataPieces == 2

MaxParityPieces == 2

\* a fanout of n bytes, all different
FanoutOfLen(n) == [k \in 1 .. n |-> k]

\* the file sizes of the layouts: empty, within the first chunk, whole
\* chunks, and chunks with a rest
FileSizes ==
    {0, 5, SectorSize, SectorSize + 5, 2 * SectorSize, 3 * SectorSize}

Layouts ==
    [fanoutDataPieces : 1 .. MaxDataPieces,
     fanoutParityPieces : 0 .. MaxParityPieces,
     cipherType : {"plain", "threefish"},
     filesize : FileSizes]

\* the reads: offsets below zero, on and off chunk boundaries; buffers
\* empty, short, of a chunk and longer
ReadOffsets ==
    {0 - SectorSize, 0 - 1, 0, 1, SectorSize - 1, SectorSize, SectorSize + 1,
     2 * SectorSize, 3 * SectorSize}

ReadLens == {0, 1, 5, SectorSize - 1, SectorSize, SectorSize + 1}

InitStreamer ==
    /\ ll = [fanoutDataPieces |-> 1, fanoutParityPieces |-> 0,
             cipherType |-> "plain", filesize |-> 0]
    /\ fanoutBytes = <<>>
    /\ keyOK = TRUE
    /\ ecOK = TRUE
    /\ nfsRes = "none"
    /\ fs = "nil"
    /\ streams = 0
    /\ raLen = 0
    /\ raOffset = 0
    /\ raFetchOK = TRUE
    /\ raN = 0
    /\ raErr = "none"
    /\ raFetched = "none"
    /\ raData = NoData

\* fs, err := r.newFanoutStreamer(link, ll, fanoutBytes)
DoNewFanoutStreamer ==
    /\ nfsRes = "none"
    /\ \E layout \in Layouts, n \in 0 .. MaxFanoutLen,
          key \in BOOLEAN, ec \in BOOLEAN :
           LET r == newFanoutStreamer(layout, FanoutOfLen(n), key, ec)
           IN  /\ ll' = layout
               /\ fanoutBytes' = FanoutOfLen(n)
               /\ keyOK' = key
               /\ ecOK' = ec
               /\ nfsRes' = r.res
               /\ fs' = r.fs
               /\ streams' = streams + r.opened
    /\ UNCHANGED <<raVars, bfVars, linkVars,
                   restVars>>

\* n, err := fs.ReadAt(b, offset)
DoReadAt ==
    /\ nfsRes = "ok"
    /\ \E blen \in ReadLens, offset \in ReadOffsets, delivered \in BOOLEAN :
           LET r == ReadAt(fs, blen, offset, delivered)
           IN  /\ raLen' = blen
               /\ raOffset' = offset
               /\ raFetchOK' = delivered
               /\ raN' = r.n
               /\ raErr' = r.err
               /\ raFetched' = r.fetched
               /\ raData' = r.data
    /\ UNCHANGED <<nfsVars, bfVars, linkVars,
                   restVars>>

NextStreamer == DoNewFanoutStreamer \/ DoReadAt

(***************************************************************************)
(* API client: getRawResponse and getReaderResponse.  An error is the      *)
(* chain of its contexts, outermost first, ending in its cause; <<>> is    *)
(* nil.  A response body is what it holds, whether any of it is unread,    *)
(* whether it is closed, and the operations made on it so far.             *)
(***************************************************************************)
\* errors.AddContext(err, ctx)
AddContext(err, ctx) == <<ctx>> \o err

\* the status codes of the responses: around the ends of 2xx, 204, 404
\* and other errors
StatusNoContent == 204

StatusNotFound == 404

Statuses ==
    {100, 199, 200, 201, StatusNoContent, 299, 300, 400, StatusNotFound, 500,
     503}

\* what a body holds: nothing, an api.Error in JSON, an api.Error whose
\* message contains that of ErrPeerExists, text that is no JSON, the
\* resource's data (the bytes of a file, no JSON either)
BodyKinds == {"empty", "apierr", "peerexists", "garbage", "data"}

\* res.Body as http.DefaultClient.Do returns it
NewBody(kind) ==
    [kind |-> kind, unread |-> kind # "empty", closed |-> FALSE,
     log |-> <<>>]

NoBody == [kind |-> "none", unread |-> FALSE, closed |-> FALSE, log |-> <<>>]

\* drainAndClose(rc): io.Copy(ioutil.Discard, rc) reads what is unread (a
\* closed body refuses the read), rc.Close() closes
drainAndClose(rc) ==
    [rc EXCEPT !.unread = IF rc.closed THEN @ ELSE FALSE,
               !.closed = TRUE,
               !.log = @ \o <<"drain", "close">>]

\* json.NewDecoder(r).Decode(&apiErr): the error of the read on a closed
\* body, io.EOF on a body with nothing left, a syntax error for text that
\* is no JSON object, else the value
Decode(r) ==
    [err |-> IF r.closed THEN <<"read on closed response body">>
             ELSE IF ~r.unread THEN <<"EOF">>
             ELSE IF r.kind \in {"apierr", "peerexists"} THEN <<>>
             ELSE <<"invalid character">>,
     body |-> [r EXCEPT !.unread = IF r.closed THEN @ ELSE FALSE,
                        !.log = @ \o <<"read">>]]

\* readAPIError(r)
readAPIError(r) ==
    LET d == Decode(r)
    IN  [err |-> IF d.err # <<>>
                 THEN AddContext(d.err, "could not read error response")
                 ELSE IF r.kind = "peerexists" THEN <<"ErrPeerExists">>
                 ELSE <<"api.Error">>,
         body |-> d.body]

\* ioutil.ReadAll(res.Body)
ReadAll(r) ==
    [data |-> IF r.unread /\ ~r.closed THEN r.kind ELSE "empty",
     err |-> IF r.closed THEN <<"read on closed response body">> ELSE <<>>,
     body |-> [r EXCEPT !.unread = IF r.closed THEN @ ELSE FALSE,
                        !.log = @ \o <<"read">>]]

\* the responses: NewRequest fails, Do fails, or a status and a body
Responses ==
    {[fail |-> f, status |-> 0, kind |-> "none"] : f \in {"NewRequest", "Do"}}
        \cup {[fail |-> "none", status |-> st, kind |-> k] :
                 st \in Statuses, k \in BodyKinds}

\* c.getRawResponse(resource) meeting response resp: header, data, err,
\* and the body as the deferred drainAndClose leaves it
getRawResponse(resp) ==
    IF resp.fail = "NewRequest"
    THEN [header |-> "nil", data |-> "nil",
          err |-> AddContext(<<"NewRequest">>,
                             "failed to construct GET request"),
          body |-> NoBody]
    ELSE IF resp.fail = "Do"
    THEN [header |-> "nil", data |-> "nil",
          err |-> AddContext(<<"Do">>, "GET request failed"),
          body |-> NoBody]
    ELSE LET body == NewBody(resp.kind)
         IN  IF resp.status = StatusNotFound
             THEN [header |-> "nil", data |-> "nil",
                   err |-> AddContext(<<"ErrAPICallNotRecognized">>,
                                      "unable to perform GET on resource"),
                   body |-> drainAndClose(body)]
             ELSE IF resp.status < 200 \/ resp.status > 299
             THEN LET e == readAPIError(body)
                  IN  [header |-> "nil", data |-> "nil",
                       err |-> AddContext(e.err, "GET request error"),
                       body |-> drainAndClose(e.body)]
             ELSE IF resp.status = StatusNoContent
             THEN [header |-> "header", data |-> "empty", err |-> <<>>,
                   body |-> drainAndClose(body)]
             ELSE LET d == ReadAll(body)
                  IN  [header |-> "header", data |-> d.data, err |-> d.err,
                       body |-> drainAndClose(d.body)]

\* c.getReaderResponse(resource) meeting response resp: header, reader,
\* err, and the body as the call leaves it
getReaderResponse(resp) ==
    IF resp.fail = "NewRequest"
    THEN [header |-> "nil", reader |-> "nil",
          err |-> AddContext(<<"NewRequest">>,
                             "failed to construct GET request"),
          body |-> NoBody]
    ELSE IF resp.fail = "Do"
    THEN [header |-> "nil", reader |-> "nil",
          err |-> AddContext(<<"Do">>, "GET request failed"),
          body |-> NoBody]
    ELSE LET body == NewBody(resp.kind)
         IN  IF resp.status = StatusNotFound
             THEN [header |-> "nil", reader |-> "nil",
                   err |-> AddContext(<<"ErrAPICallNotRecognized">>,
                                      "unable to perform GET on resource"),
                   body |-> drainAndClose(body)]
             ELSE IF resp.status < 200 \/ resp.status > 299
             THEN LET e == readAPIError(drainAndClose(body))
                  IN  [header |-> "nil", reader |-> "nil",
                       err |-> AddContext(e.err, "GET request error"),
                       body |-> e.body]
             ELSE IF resp.status = StatusNoContent
             THEN [header |-> "header", reader |-> "nil", err |-> <<>>,
                   body |-> drainAndClose(body)]
             ELSE [header |-> "header", reader |-> "res.Body", err |-> <<>>,
                   body |-> body]

NoResponse == [fail |-> "none", status |-> 0, kind |-> "none"]

\* the results before the calls
RawNotCalled == [header |-> "none", data |-> "none", err |-> <<>>]

ReaderNotCalled == [header |-> "none", reader |-> "none", err |-> <<>>]

InitClient ==
    /\ clResp = NoResponse
    /\ rawOut = RawNotCalled
    /\ rawBody = NoBody
    /\ rdrOut = ReaderNotCalled
    /\ rdrBody = NoBody

\* header, data, err := c.getRawResponse(resource); the server answers
\* every GET of the resource alike
DoGetRawResponse ==
    /\ rawOut = RawNotCalled
    /\ \E resp \in Responses :
           /\ clResp \in {NoResponse, resp}
           /\ clResp' = resp
           /\ LET r == getRawResponse(resp)
              IN  /\ rawOut' = [header |-> r.header, data |-> r.data,
                                err |-> r.err]
                  /\ rawBody' = r.body
    /\ UNCHANGED <<rdrOut, rdrBody, bfVars, linkVars, fsVars, ccVars, efVars>>

\* header, reader, err := c.getReaderResponse(resource)
DoGetReaderResponse ==
    /\ rdrOut = ReaderNotCalled
    /\ \E resp \in Responses :
           /\ clResp \in {NoResponse, resp}
           /\ clResp' = resp
           /\ LET r == getReaderResponse(resp)
              IN  /\ rdrOut' = [header |-> r.header, reader |-> r.reader,
                                err |-> r.err]
                  /\ rdrBody' = r.body
    /\ UNCHANGED <<rawOut, rawBody, bfVars, linkVars, fsVars, ccVars, efVars>>

NextClient == DoGetRawResponse \/ DoGetReaderResponse

(***************************************************************************)
(* linkfileEncodeFanout, and newFanoutStreamer on the fanout it returns.   *)
(* A file is its master key's type, its erasure code and, per chunk and    *)
(* piece index, the piece set fileNode.Pieces returns.                     *)
(***************************************************************************)
\* the most chunks of a file
MaxChunks == 2

\* a root whose 32 bytes are all v; Root(0) is the empty hash
Root(v) == [k \in 1 .. HashSize |-> v]

\* findPieceInPieceSet: the first non-empty root of the set, at q on
RECURSIVE findPieceInPieceSet(_, _)
findPieceInPieceSet(pieceSet, q) ==
    IF q > Len(pieceSet) THEN ZeroHash
    ELSE IF pieceSet[q] # ZeroHash THEN pieceSet[q]
    ELSE findPieceInPieceSet(pieceSet, q + 1)

\* the loop of the special case over the piece sets of one chunk, at p:
\* the fanout with the first non-empty root appended, or as it was
RECURSIVE AppendFirstPiece(_, _, _)
AppendFirstPiece(fanout, allPieces, p) ==
    IF p > Len(allPieces) THEN fanout
    ELSE LET root == findPieceInPieceSet(allPieces[p], 1)
         IN  IF root # ZeroHash THEN fanout \o root
             ELSE AppendFirstPiece(fanout, allPieces, p + 1)

\* the loop of the general case over the piece sets of one chunk, at p
RECURSIVE AppendAllPieces(_, _, _)
AppendAllPieces(fanout, allPieces, p) ==
    IF p > Len(allPieces) THEN fanout
    ELSE AppendAllPieces(fanout \o findPieceInPieceSet(allPieces[p], 1),
                         allPieces, p + 1)

\* the loop over the chunks, at i (0-based)
RECURSIVE EncodeChunks(_, _, _, _)
EncodeChunks(file, fanout, i, onlyOnePieceNeeded) ==
    IF i >= Len(file.chunks) THEN [err |-> "nil", fanout |-> fanout]
    ELSE IF file.piecesErrAt = i + 1 THEN [err |-> "err", fanout |-> <<>>]
    ELSE EncodeChunks(
            file,
            IF onlyOnePieceNeeded
            THEN AppendFirstPiece(fanout, file.chunks[i + 1], 1)
            ELSE AppendAllPieces(fanout, file.chunks[i + 1], 1),
            i + 1, onlyOnePieceNeeded)

linkfileEncodeFanout(file) ==
    LET onlyOnePieceNeeded == file.dataPieces = 1 /\ file.cipherType = "plain"
    IN  EncodeChunks(file, <<>>, 0, onlyOnePieceNeeded)

\* the erasure codes of the files: <<MinPieces, NumPieces>>
ErasureCodes == {<<1, 1>>, <<1, 2>>, <<2, 2>>}

\* the root of piece p of chunk k: the pieces of an unencrypted 1-of-N
\* file are identical, all others differ
PieceRoot(k, p, identical) == IF identical THEN Root(k) ELSE Root(16 * k + p)

\* the piece sets of one piece: none uploaded, one upload without a root
\* yet, one with the root, one without followed by one with
PieceSetsOf(r) == <<<<>>, <<ZeroHash>>, <<r>>, <<ZeroHash, r>>>>

\* the files: every cipher, erasure code, number of chunks and piece sets,
\* with fileNode.Pieces failing at chunk piecesErrAt (0: at none)
Files ==
    UNION { { [cipherType |-> c,
               dataPieces |-> ec[1],
               numPieces |-> ec[2],
               piecesErrAt |-> e,
               chunks |->
                   [k \in 1 .. n |->
                       [q \in 1 .. ec[2] |->
                           PieceSetsOf(PieceRoot(k, q,
                               ec[1] = 1 /\ c = "plain"))[shape[k][q]]]]]
              : shape \in [1 .. n -> [1 .. ec[2] -> 1 .. 4]],
                e \in 0 .. n }
            : c \in {"plain", "threefish"}, ec \in ErasureCodes,
              n \in 0 .. MaxChunks }

\* the layout of the linkfile made of file
LayoutOf(file) ==
    [fanoutDataPieces |-> file.dataPieces,
     fanoutParityPieces |-> file.numPieces - file.dataPieces,
     cipherType |-> file.cipherType,
     filesize |-> Len(file.chunks) * file.dataPieces * SectorSize]

InitEncode ==
    /\ efFile = [cipherType |-> "plain", dataPieces |-> 1, numPieces |-> 1,
                 piecesErrAt |-> 0, chunks |-> <<>>]
    /\ efFanout = <<>>
    /\ efErr = "none"
    /\ efRes = "none"
    /\ efChunks = <<>>
    /\ efPc = "new"

\* fanout, err := linkfileEncodeFanout(fileNode)
DoEncodeFanout ==
    /\ efPc = "new"
    /\ \E file \in Files :
           LET r == linkfileEncodeFanout(file)
           IN  /\ efFile' = file
               /\ efFanout' = r.fanout
               /\ efErr' = r.err
    /\ efPc' = "encoded"
    /\ UNCHANGED <<efRes, efChunks, bfVars, linkVars, fsVars, ccVars,
                   clVars>>

\* fs, err := r.newFanoutStreamer(link, ll, fanout) on the fanout encoded
DoDecodeFanout ==
    /\ efPc = "encoded"
    /\ efErr = "nil"
    /\ LET r == newFanoutStreamer(LayoutOf(efFile), efFanout, TRUE, TRUE)
       IN  /\ efRes' = r.res
           /\ efChunks' = IF r.res = "ok" THEN r.fs.staticChunks ELSE <<>>
    /\ efPc' = "decoded"
    /\ UNCHANGED <<efFile, efFanout, efErr, bfVars, linkVars, fsVars, ccVars,
                   clVars>>

NextEncode == DoEncodeFanout \/ DoDecodeFanout

(***************************************************************************)
(* Goroutines on one streamer.  ReadAt takes no lock: fs.mu is declared    *)
(* in the struct and locked nowhere in ReadAt or SilentClose.  A call of   *)
(* ReadAt is three steps: the call with its input checks (which read only  *)
(* the arguments and static fields), the return of managedFetchChunk, and  *)
(* the copy and return.  SilentClose is one step.                          *)
(***************************************************************************)
\* the goroutines that call ReadAt
NumReaders == 2

Readers == 1 .. NumReaders

\* the most SilentClose calls
MaxCloses == 2

\* the arguments of the concurrent reads: a refused offset and the two
\* chunks; a short buffer and a buffer of a chunk
ConcOffsets == {0 - 1, 0, SectorSize}

ConcLens == {5, SectorSize}

\* stream.Close() of the stream embedded in the streamer: the stream is
\* closed; closing a closed stream is no error
StreamClose(open) == [err |-> "nil", open |-> FALSE]

\* how a managedFetchChunk that is outstanding ends: with the error of the
\* cancellation when the stream was closed, else as the fetcher delivers
FetchOutcome(open, delivered) ==
    IF ~open THEN "closed"
    ELSE IF delivered THEN "delivered"
    ELSE "failed"

\* the streamer of a plain 1-of-1 file of one chunk and 5 bytes
InitConcurrent ==
    /\ cfs = newFanoutStreamer(
                 [fanoutDataPieces |-> 1, fanoutParityPieces |-> 0,
                  cipherType |-> "plain", filesize |-> SectorSize + 5],
                 FanoutOfLen(2 * HashSize), TRUE, TRUE).fs
    /\ rdPc = [g \in Readers |-> "idle"]
    /\ rdLen = [g \in Readers |-> 0]
    /\ rdOffset = [g \in Readers |-> 0]
    /\ rdFetch = [g \in Readers |-> "none"]
    /\ rdN = [g \in Readers |-> 0]
    /\ rdErr = [g \in Readers |-> "none"]
    /\ submitted = <<>>
    /\ completed = <<>>
    /\ streamOpen = TRUE
    /\ closeCalls = 0
    /\ closeLogged = 0
    /\ inFlightAtClose = {}

\* goroutine g calls fs.ReadAt(b, offset): the input checks, and either
\* the return of their error or the call of managedFetchChunk
ReadAtCall(g) ==
    /\ rdPc[g] = "idle"
    /\ \E blen \in ConcLens, offset \in ConcOffsets :
           LET r == ReadAt(cfs, blen, offset, TRUE)
           IN  /\ rdLen' = [rdLen EXCEPT ![g] = blen]
               /\ rdOffset' = [rdOffset EXCEPT ![g] = offset]
               /\ IF r.err \notin {"nil", "fetch"}
                  THEN /\ rdPc' = [rdPc EXCEPT ![g] = "done"]
                       /\ rdN' = [rdN EXCEPT ![g] = r.n]
                       /\ rdErr' = [rdErr EXCEPT ![g] = r.err]
                       /\ completed' = Append(completed, g)
                  ELSE /\ rdPc' = [rdPc EXCEPT ![g] = "fetching"]
                       /\ UNCHANGED <<rdN, rdErr, completed>>
    /\ submitted' = Append(submitted, g)
    /\ UNCHANGED <<cfs, rdFetch, streamOpen, closeCalls, closeLogged,
                   inFlightAtClose, bfVars, linkVars, fsVars, efVars, clVars>>

\* the managedFetchChunk of goroutine g returns
FetchReturn(g) ==
    /\ rdPc[g] = "fetching"
    /\ \E delivered \in BOOLEAN :
           rdFetch' = [rdFetch EXCEPT ![g] =
                          FetchOutcome(streamOpen, delivered)]
    /\ rdPc' = [rdPc EXCEPT ![g] = "fetched"]
    /\ UNCHANGED <<cfs, rdLen, rdOffset, rdN, rdErr, submitted, completed,
                   streamOpen, closeCalls, closeLogged, inFlightAtClose,
                   bfVars, linkVars, fsVars, efVars, clVars>>

\* ReadAt of goroutine g tests the error of the fetch, copies and returns
ReadAtReturn(g) ==
    /\ rdPc[g] = "fetched"
    /\ LET r == ReadAt(cfs, rdLen[g], rdOffset[g], rdFetch[g] = "delivered")
       IN  /\ rdN' = [rdN EXCEPT ![g] = r.n]
           /\ rdErr' = [rdErr EXCEPT ![g] =
                           IF rdFetch[g] = "closed" THEN "closed" ELSE r.err]
    /\ rdPc' = [rdPc EXCEPT ![g] = "done"]
    /\ completed' = Append(completed, g)
    /\ UNCHANGED <<cfs, rdLen, rdOffset, rdFetch, submitted, streamOpen,
                   closeCalls, closeLogged, inFlightAtClose,
                   bfVars, linkVars, fsVars, efVars, clVars>>

\* fs.SilentClose()
SilentClose ==
    /\ closeCalls < MaxCloses
    /\ LET c == StreamClose(streamOpen)
       IN  /\ streamOpen' = c.open
           /\ closeLogged' = closeLogged + (IF c.err # "nil" THEN 1 ELSE 0)
    /\ closeCalls' = closeCalls + 1
    /\ inFlightAtClose' =
           inFlightAtClose \cup
               {g \in Readers : rdPc[g] \in {"fetching", "fetched"}}
    /\ UNCHANGED <<cfs, rdPc, rdLen, rdOffset, rdFetch, rdN, rdErr,
                   submitted, completed, bfVars, linkVars, fsVars,
                   efVars, clVars>>

NextConcurrent ==
    \/ \E g \in Readers : ReadAtCall(g)
    \/ \E g \in Readers : FetchReturn(g)
    \/ \E g \in Readers : ReadAtReturn(g)
    \/ SilentClose

(***************************************************************************)
(* The arguments the codec is called with: every multiple of 4 KiB up to   *)
(* one step past the sector, offsets off the 4 KiB grid, and in every      *)
(* bucket of every mode the length one byte in, one byte before the end    *)
(* and at the end, as TestSialinkAutoExamples does, with 0 and a length    *)
(* above the top of the last mode.                                         *)
(***************************************************************************)
BfOffsets ==
    { 4096 * j : j \in 0 .. (SectorSize \div 4096) + 1 }
        \cup { 1, 2048, 4095, 4097, 6144, 12288 + 1, SectorSize - 1 }

BfLengths ==
    { LengthShift(m) + LengthAlign(m) * i + 1 : m \in Modes, i \in Buckets }
        \cup { StoredLength(m, i) - 1 : m \in Modes, i \in Buckets }
        \cup { StoredLength(m, i) : m \in Modes, i \in Buckets }
        \cup { 0, 10000, 33000, 39000, SectorSize + 1 }

InitBitfield ==
    /\ bitfield = 0
    /\ bfOffset = 0
    /\ bfLength = 0
    /\ bfErr = "nil"
    /\ bfOut = <<0, 0>>
    /\ bfPc = "new"

\* var ld LinkData; err := ld.SetOffsetAndLen(offset, length)
DoSetOffsetAndLen ==
    /\ bfPc = "new"
    /\ \E offset \in BfOffsets, length \in BfLengths :
           LET r == SetOffsetAndLen(bitfield, offset, length)
           IN  /\ bfOffset' = offset
               /\ bfLength' = length
               /\ bfErr' = r[1]
               /\ bitfield' = r[2]
    /\ bfPc' = "set"
    /\ UNCHANGED <<bfOut, linkVars, fsVars,
                   restVars>>

\* offset, length := ld.OffsetAndLen()
DoOffsetAndLen ==
    /\ bfPc = "set"
    /\ bfOut' = OffsetAndLen(bitfield)
    /\ bfPc' = "read"
    /\ UNCHANGED <<bitfield, bfOffset, bfLength, bfErr, linkVars, fsVars,
                   restVars>>

NextBitfield == DoSetOffsetAndLen \/ DoOffsetAndLen

\* the bitfield codec alone: the link codec stays idle
InitRest == InitConcurrent /\ InitEncode /\ InitClient

InitSpecBitfield == InitBitfield /\ InitLink /\ InitStreamer /\ InitRest

SpecBitfield == InitSpecBitfield /\ [][NextBitfield]_vars

\* the link codec alone
InitSpecLink == InitLink /\ InitBitfield /\ InitStreamer /\ InitRest

SpecLink == InitSpecLink /\ [][NextLink]_vars

\* the fanout streamer alone
InitSpecStreamer == InitStreamer /\ InitBitfield /\ InitLink /\ InitRest

SpecStreamer == InitSpecStreamer /\ [][NextStreamer]_vars

\* goroutines reading and closing one streamer
InitSpecConcurrent ==
    /\ InitConcurrent
    /\ InitBitfield /\ InitLink /\ InitStreamer /\ InitEncode /\ InitClient

SpecConcurrent == InitSpecConcurrent /\ [][NextConcurrent]_vars

\* encoding the fanout of a file and decoding it
InitSpecEncode ==
    /\ InitEncode
    /\ InitBitfield /\ InitLink /\ InitStreamer /\ InitConcurrent /\ InitClient

\* the two GETs of the API client
InitSpecClient ==
    /\ InitClient
    /\ InitBitfield /\ InitLink /\ InitStreamer /\ InitConcurrent /\ InitEncode

SpecClient == InitSpecClient /\ [][NextClient]_vars

SpecEncode == InitSpecEncode /\ [][NextEncode]_vars

(***************************************************************************)
(* Claims on the bitfield codec.                                           *)
(***************************************************************************)
\* the offset indices the brute force test walks for bucket i of mode m
LegalIndices(m, i) ==
    IF m = 0 THEN 0 .. (1024 - i) - 1
    ELSE 0 .. ((1024 \div Pow2(m)) - 4 - (i \div 2)) - 1

\* C1: for every mode m, bucket i, legal offset index j and length in the
\* bucket (shift + length_align*i, shift + length_align*(i+1)],
\* SetOffsetAndLen(offset_align*j, length) succeeds and OffsetAndLen then
\* returns (offset_align*j, shift + length_align*(i+1)).
C1_RoundTrip ==
    bfPc = "read" =>
        \A m \in Modes, i \in Buckets :
            ( /\ bfLength > LengthShift(m) + LengthAlign(m) * i
              /\ bfLength <= LengthShift(m) + LengthAlign(m) * (i + 1)
              /\ bfOffset % OffsetAlign(m) = 0
              /\ (bfOffset \div OffsetAlign(m)) \in LegalIndices(m, i) )
            => ( /\ bfErr = "nil"
                 /\ bfOut = <<bfOffset,
                              LengthShift(m) + LengthAlign(m) * (i + 1)>> )

\* C1 witness: a length one byte into bucket 0 of mode 7 at offset index 3
\* has been set and read back rounded up to the bucket's end.
C1_Witness ==
    /\ bfPc = "read"
    /\ bfOffset = 3 * 524288
    /\ bfLength = 2097152 + 1
    /\ bfErr = "nil"
    /\ bfOut = <<3 * 524288, 2097152 + 262144>>

\* the smallest mode admitting the length of the last call, its rounded
\* length, as the claims state them
ClaimHasMode == bfLength <= 32768 * Pow2(NumModes - 1)

ClaimMode ==
    CHOOSE m \in Modes :
        /\ bfLength <= 32768 * Pow2(m)
        /\ (m = 0 \/ bfLength > 32768 * Pow2(m - 1))

ClaimRounded ==
    LET m == ClaimMode
    IN  LengthShift(m) + LengthAlign(m) *
            (CHOOSE k \in 1 .. NumBuckets :
                /\ bfLength <= LengthShift(m) + LengthAlign(m) * k
                /\ (k = 1 \/ bfLength > LengthShift(m) + LengthAlign(m) * (k - 1)))

\* C5: with m the smallest mode admitting length, SetOffsetAndLen fails
\* with ErrUnalignedOffset when offset is not a multiple of mode m's
\* offset_align, fails with ErrOffsetOutOfRange when offset is aligned but
\* offset plus the rounded length leaves the 4 MiB sector, and succeeds for
\* every other offset.
C5_IllegalOffsets ==
    (bfPc # "new" /\ ClaimHasMode) =>
        LET m == ClaimMode
        IN  IF bfOffset % OffsetAlign(m) # 0
            THEN bfErr = "ErrUnalignedOffset"
            ELSE IF bfOffset + ClaimRounded > SectorSize
            THEN bfErr = "ErrOffsetOutOfRange"
            ELSE bfErr = "nil"

\* C5 witness: all three outcomes are per mode; here an offset aligned
\* for mode 1 whose index is one past the last legal one of bucket 7.
C5_Witness ==
    /\ bfPc = "set"
    /\ bfLength = 65536
    /\ bfOffset = 8192 * 505
    /\ bfErr = "ErrOffsetOutOfRange"

\* C6 as stated: length 0 is accepted only at offset 0, giving (0, 4096);
\* length 0 at any other offset fails (with ErrLengthZero; any error is
\* taken for it here).
C6_Original ==
    (bfPc # "new" /\ bfLength = 0) =>
        IF bfOffset = 0
        THEN bfErr = "nil" /\ (bfPc = "read" => bfOut = <<0, 4096>>)
        ELSE bfErr # "nil"

\* C6 as amended: length 0 is handled like a length of 1..4096: it is
\* accepted at every offset that is a multiple of 4096 with offset + 4096
\* inside the sector, OffsetAndLen then returns (offset, 4096), and no
\* call fails with ErrLengthZero.
C6_ZeroLength ==
    /\ bfErr # "ErrLengthZero"
    /\ (bfPc # "new" /\ bfLength = 0) =>
          /\ bfErr = "nil" <=>
                (bfOffset % 4096 = 0 /\ bfOffset + 4096 <= SectorSize)
          /\ (bfPc = "read" /\ bfErr = "nil") => bfOut = <<bfOffset, 4096>>

\* C6 witness: the manual example (4096 * 45, 0) read back as
\* (4096 * 45, 4096).
C6_Witness ==
    /\ bfPc = "read"
    /\ bfLength = 0
    /\ bfOffset = 4096 * 45
    /\ bfErr = "nil"
    /\ bfOut = <<4096 * 45, 4096>>

(***************************************************************************)
(* Claims on the link codec.                                               *)
(***************************************************************************)
\* C2: serializing a LinkData and parsing the text back, with or without
\* its "sia://", reports no error and yields a LinkData equal field for
\* field to the original.
C2_RoundTrip ==
    (linkPc = "loaded" /\ linkKind = "link") =>
        (loadErr = "nil" /\ ldOut = ldIn)

\* C2 witness: the LinkData with every byte 0xFF has been serialized and
\* loaded back.
C2_Witness ==
    /\ linkPc = "loaded"
    /\ linkKind = "link"
    /\ ldIn.Version = 255
    /\ ldIn.MerkleRoot = [k \in 1 .. HashSize |-> 255]
    /\ ldIn.HeaderSize = 65535
    /\ ldIn.FileSize = <<65535, 65535, 65535, 65535>>
    /\ ldIn.DataPieces = 255
    /\ ldIn.ParityPieces = 255
    /\ ldOut = ldIn
    /\ loadErr = "nil"

\* C3 as stated, in the cases it names: loading a 51 character payload, a
\* 53 character payload and the empty string each fails with an error.
C3_Original ==
    (linkPc = "loaded" /\ linkKind = "arb" /\ Len(linkText) \in {0, 51, 53})
        => loadErr = "err"

\* C4 as stated: a valid link followed by "&" and any suffix loads without
\* error into the same LinkData as the link alone.
C4_Original ==
    (linkPc = "loaded" /\ linkKind = "params") =>
        /\ loadErr = "nil"
        /\ ldOut = LoadString(ZeroLinkData, String(ldIn)).ld

(***************************************************************************)
(* Claims on the fanout streamer.                                          *)
(***************************************************************************)
\* the form of the fanout as section 4.4 of the spec gives it for the
\* layout of the last newFanoutStreamer call
ClaimCompact == ll.fanoutDataPieces = 1 /\ ll.cipherType = "plain"

ClaimPiecesPerChunk ==
    IF ClaimCompact THEN 1 ELSE ll.fanoutDataPieces + ll.fanoutParityPieces

ClaimChunkStride == 32 * ClaimPiecesPerChunk

ClaimChunkSize == SectorSize * ll.fanoutDataPieces

\* C7 as stated: given a fanout whose length is a multiple of chunk_stride
\* (and a layout whose key and erasure coder can be made),
\* newFanoutStreamer builds a chunk table of len/chunk_stride chunks of
\* pieces_per_chunk roots each, piece p of chunk k being the 32 fanout
\* bytes from k*chunk_stride + 32*p on, in the general form as in the
\* compact form.
C7_Original ==
    (nfsRes # "none" /\ keyOK /\ ecOK
        /\ Len(fanoutBytes) % ClaimChunkStride = 0) =>
        /\ nfsRes = "ok"
        /\ Len(fs.staticChunks) = Len(fanoutBytes) \div ClaimChunkStride
        /\ \A k \in 1 .. Len(fs.staticChunks) :
               /\ Len(fs.staticChunks[k]) = ClaimPiecesPerChunk
               /\ \A q \in 1 .. ClaimPiecesPerChunk :
                      fs.staticChunks[k][q] =
                          SubSeq(fanoutBytes,
                                 (k - 1) * ClaimChunkStride + 32 * (q - 1) + 1,
                                 (k - 1) * ClaimChunkStride + 32 * q)

\* C8: newFanoutStreamer returns an error and no streamer, and opens no
\* stream, whenever len(fanout_bytes) is not a multiple of chunk_stride
\* (32 in the compact form, 32 * (data + parity) otherwise).
C8_FanoutSize ==
    (nfsRes # "none" /\ Len(fanoutBytes) % ClaimChunkStride # 0) =>
        (nfsRes = "err" /\ fs = "nil" /\ streams = 0)

\* C8 witness: a general form layout of 2 + 1 pieces was given 64 bytes, a
\* multiple of 32 but not of 96, and was refused.
C8_Witness ==
    /\ nfsRes = "err"
    /\ keyOK
    /\ ecOK
    /\ ll.fanoutDataPieces = 2
    /\ ll.fanoutParityPieces = 1
    /\ Len(fanoutBytes) = 64
    /\ fs = "nil"
    /\ streams = 0

\* C9: ReadAt returns 0 bytes and an error without fetching a chunk when
\* offset < 0, or len(buf) > chunk_size, or offset is not a multiple of
\* chunk_size, or offset + len(buf) > filesize; the error is that of the
\* first of these that holds.
C9_Refusals ==
    raErr # "none" =>
        LET expected ==
                IF raOffset < 0 THEN "negative"
                ELSE IF raLen > ClaimChunkSize THEN "oversized"
                ELSE IF raOffset % ClaimChunkSize # 0 THEN "unaligned"
                ELSE IF raOffset + raLen > ll.filesize THEN "out of bounds"
                ELSE "nil"
        IN  expected # "nil" =>
                (raErr = expected /\ raN = 0 /\ raFetched = "none")

\* C9 witness: a read that is oversized and beyond the file and unaligned
\* was refused as oversized.
C9_Witness ==
    /\ raErr = "oversized"
    /\ raOffset = 1
    /\ raLen = SectorSize + 1
    /\ ll.filesize = 5
    /\ raN = 0
    /\ raFetched = "none"

PosIn(q, g) == CHOOSE k \in 1 .. Len(q) : q[k] = g

\* C11 as stated: ReadAt calls on one streamer are serialized: at no time
\* are two of them inside their chunk fetch, and the calls return in the
\* order they were made (of the calls that passed the input checks; a
\* call they refuse returns at once).
C11_Original ==
    /\ Cardinality({g \in Readers : rdPc[g] = "fetching"}) <= 1
    /\ \A g, h \in Readers :
           ( /\ rdPc[g] = "done" /\ rdFetch[g] # "none"
             /\ rdPc[h] = "done" /\ rdFetch[h] # "none"
             /\ PosIn(submitted, g) < PosIn(submitted, h) )
           => PosIn(completed, g) < PosIn(completed, h)

\* C12 as stated: a ReadAt that was in flight when SilentClose was called
\* returns an error (Closed; any error is taken for it here) and copies
\* no bytes, and a second SilentClose leaves the stream closed and
\* reports no failure.
C12_Original ==
    /\ \A g \in Readers :
           (rdPc[g] = "done" /\ g \in inFlightAtClose) =>
               (rdErr[g] # "nil" /\ rdN[g] = 0)
    /\ closeCalls >= 1 => ~streamOpen
    /\ closeLogged = 0

(***************************************************************************)
(* Claims on the fanout encoding.                                          *)
(***************************************************************************)
\* the places <<piece, position in its set>> of chunk k of the file that
\* hold a non-empty root
ClaimNonEmpty(k) ==
    UNION { { <<q, t>> : t \in { u \in 1 .. Len(efFile.chunks[k][q]) :
                                   efFile.chunks[k][q][u] # ZeroHash } }
            : q \in 1 .. Len(efFile.chunks[k]) }

\* the first non-empty piece root of chunk k
ClaimFirstRoot(k) ==
    LET at == CHOOSE a \in ClaimNonEmpty(k) :
                  \A b \in ClaimNonEmpty(k) :
                      a[1] < b[1] \/ (a[1] = b[1] /\ a[2] <= b[2])
    IN  efFile.chunks[k][at[1]][at[2]]

\* C13 as stated: for an unencrypted 1-of-N file the fanout holds exactly
\* one root per chunk, in chunk order: its length is NumChunks * 32 and the
\* root at position k is the first non-empty piece root of chunk k (where
\* the chunk has one); decoding it in compact form gives a chunk table
\* whose k-th entry is that root of chunk k; also for a file with a chunk
\* without a non-empty piece.
C13_Original ==
    ( /\ efPc # "new"
      /\ efErr = "nil"
      /\ efFile.dataPieces = 1
      /\ efFile.cipherType = "plain" ) =>
        /\ Len(efFanout) = Len(efFile.chunks) * HashSize
        /\ \A k \in 1 .. Len(efFile.chunks) :
               ClaimNonEmpty(k) # {} =>
                   SubSeq(efFanout, HashSize * (k - 1) + 1, HashSize * k)
                       = ClaimFirstRoot(k)
        /\ efPc = "decoded" =>
               /\ efRes = "ok"
               /\ Len(efChunks) = Len(efFile.chunks)
               /\ \A k \in 1 .. Len(efFile.chunks) :
                      ClaimNonEmpty(k) # {} =>
                          efChunks[k] = <<ClaimFirstRoot(k)>>

(***************************************************************************)
(* Claims on the API client.                                               *)
(***************************************************************************)
\* the response has a status outside 200..299 other than 404
ClaimErrorStatus ==
    /\ clResp.fail = "none"
    /\ clResp.status < 200 \/ clResp.status > 299
    /\ clResp.status # 404

\* how often op was made on the body of getReaderResponse
ClaimCount(op) ==
    Cardinality({i \in 1 .. Len(rdrBody.log) : rdrBody.log[i] = op})

\* C14 as stated: for a status outside 200..299 other than 404,
\* getReaderResponse returns the error getRawResponse returns for that
\* response, the api.Error decoded from the body under the context of the
\* GET request; and whenever it returns no reader for a response, the
\* body was drained and closed exactly once and not read after that.
C14_Original ==
    /\ (rdrOut # ReaderNotCalled /\ ClaimErrorStatus) =>
           /\ rdrOut.err = getRawResponse(clResp).err
           /\ rawOut # RawNotCalled => rdrOut.err = rawOut.err
           /\ clResp.kind = "apierr" =>
                  rdrOut.err = <<"GET request error", "api.Error">>
    /\ ( /\ rdrOut # ReaderNotCalled
         /\ clResp.fail = "none"
         /\ rdrOut.reader = "nil" ) =>
           /\ ClaimCount("drain") = 1
           /\ ClaimCount("close") = 1
           /\ \A i, j \in 1 .. Len(rdrBody.log) :
                  (i < j /\ rdrBody.log[i] = "close") =>
                      rdrBody.log[j] # "read"

====
